---- MODULE Spec2Model ----
(***************************************************************************)
(* Model of mu::audio::rpc::RpcSequencer                                   *)
(* (src/framework/audio/internal/rpc/rpcsequencer.cpp): the control-side   *)
(* proxy of the audio sequencer.  Outbound operations hand a Msg to the    *)
(* rpc channel; the listener registered in setup() filters inbound Msgs by *)
(* target and routes them through the function-local static table `calls`. *)
(***************************************************************************)
EXTENDS Integers, Sequences, FiniteSets, TLC

\* ---------------------------------------------------------------- bounds
NumProxies == 2
MaxTrack == 2
MaxListen == 2
MaxBinds == 2
NumThreads == 2
MaxInstances == 2

Proxies == 1..NumProxies
TrackIds == 1..MaxTrack
ListenIDs == 1..MaxListen
Threads == 1..NumThreads

\* ------------------------------------------------------- value domains
\* ISequencer::Status as its enumerator values, float positions, ticks,
\* millisecond positions, stream handles and MidiData as small integers.
StatusValues == {0, 1}
Positions == {0, 5}
Ticks == {7}
Millis == {1, 2}
Streams == {3}
MidiDatas == {4}

Targets == {"Sequencer", "Other"}
NoArgs == << >>

\* Msg(target, method, args): rpc::Msg as built at every send site.
Msg(target, method, args) == [target |-> target, method |-> method, args |-> args]

\* The messages the remote side (or any other sender on the broadcast
\* channel) may deliver: the three events, each well typed, and a method the
\* table does not know, addressed to this target or to another one.
StatusMsgs == {Msg(t, "statusChanged", <<s>>) : t \in Targets, s \in StatusValues}
PositionMsgs == {Msg(t, "positionChanged", <<x>>) : t \in Targets, x \in Positions}
TickMsgs == {Msg(t, "midiTickPlayed", <<k, tk>>) : t \in Targets, k \in TrackIds, tk \in Ticks}
UnknownMsgs == {Msg(t, "play", NoArgs) : t \in Targets}
InboundMsgs == StatusMsgs \cup PositionMsgs \cup TickMsgs \cup UnknownMsgs

VARIABLES
    serialized,          \* rpcChannel()->isSerialized()
    listeners,           \* the channel's listeners: ListenID -> captured this (0: none)
    nextListenID,        \* next id listen() hands out
    inflight,            \* <<lid, this, msg>> of a listener call in progress, or << >>
    calls,               \* static std::map<Method, Call>: set of <<method, captured this>>
    life,                \* per proxy: "alive" or "destroyed"
    m_listenID,
    m_status,
    m_playbackPosition,
    m_midiTickPlayed,    \* per proxy, track id -> channel instance (0: no entry; n: the
                         \* n-th instance made for this entry)
    chanTicks,           \* per proxy and track id: ticks sent on the entry's channel
    bindsSent,           \* per proxy and track id: bindMidiTickPlayed messages sent
    last,                \* the call that completed last: what it sent and returned
    emitted,             \* what that call emitted on the proxies' channels
    observed,            \* what a subscriber invoked by that emission reads through
                         \* status() / playbackPosition(): <<value>>, or << >>
    threads,             \* per calling thread: its position inside midiTickPlayed(id)
    subscribed,          \* per proxy: track ids midiTickPlayed(id) was called for
    lambdaOnDead,        \* proxies whose listener body ran after destruction
    handlerOnDead        \* proxies a handler acted on after destruction

transportVars == <<serialized, listeners, nextListenID, inflight>>
cacheVars == <<m_status, m_playbackPosition>>
registryVars == <<m_midiTickPlayed, chanTicks>>
historyVars == <<subscribed>>
ghostVars == <<lambdaOnDead, handlerOnDead>>
vars == <<transportVars, calls, life, m_listenID, cacheVars, registryVars, bindsSent,
          last, emitted, observed, threads, historyVars, ghostVars>>

\* RpcSequencer::RpcSequencer: every proxy addresses TargetName::Sequencer.
m_target(p) == "Sequencer"

\* The record of a completed call: the operation, the proxy it was called
\* on, its parameters, what it returned (<< >>: nothing / nullptr), the
\* messages it handed to rpcChannel()->send, whether it hit NOT_IMPLEMENTED;
\* for a listener call the message, whether it passed the target filter, the
\* handler run and the proxy the handler acted on.
Done(op, p, args) ==
    [op |-> op, p |-> p, args |-> args, ret |-> << >>, sent |-> << >>,
     notImpl |-> FALSE, target |-> "", method |-> "", pass |-> FALSE, ran |-> "none",
     on |-> 0, logged |-> FALSE]

\* A channel instance: the n-th one made for entry id of proxy p's registry.
Chan(p, id, n) == <<p, id, n>>

\* A thread of the owning code that is not inside midiTickPlayed; inside, pc
\* is the statement it executes next, found the result of the find, raced
\* whether another thread or the listener touched the registry meanwhile.
Idle == [pc |-> "idle", p |-> 0, id |-> 0, found |-> FALSE, raced |-> FALSE, ret |-> << >>]

\* The proxies after construction, none set up yet; the channel without
\* listeners; the static table empty.  Members the constructor body does
\* not assign start at their default (status 0, position 0, no listen id).
Init ==
    /\ serialized \in BOOLEAN
    /\ listeners = [l \in ListenIDs |-> 0]
    /\ nextListenID = 1
    /\ inflight = << >>
    /\ calls = {}
    /\ life = [p \in Proxies |-> "alive"]
    /\ m_listenID = [p \in Proxies |-> 0]
    /\ m_status = [p \in Proxies |-> 0]
    /\ m_playbackPosition = [p \in Proxies |-> 0]
    /\ m_midiTickPlayed = [p \in Proxies |-> [k \in TrackIds |-> 0]]
    /\ chanTicks = [p \in Proxies |-> [k \in TrackIds |-> {}]]
    /\ bindsSent = [p \in Proxies |-> [k \in TrackIds |-> 0]]
    /\ last = Done("init", 0, NoArgs)
    /\ emitted = << >>
    /\ observed = << >>
    /\ threads = [t \in Threads |-> Idle]
    /\ subscribed = [p \in Proxies |-> {}]
    /\ lambdaOnDead = {}
    /\ handlerOnDead = {}

\* ------------------------------------------------------ rpc channel
\* rpcChannel()->listen(handler): a fresh id for a closure capturing `this`.
Listen(p) ==
    /\ listeners' = [listeners EXCEPT ![nextListenID] = p]
    /\ nextListenID' = nextListenID + 1

\* rpcChannel()->unlisten(id): removal, a no-op for an id not registered.
Unlisten(id) ==
    listeners' = [l \in ListenIDs |-> IF l = id THEN 0 ELSE listeners[l]]

\* ------------------------------------------------ construction, teardown
\* RpcSequencer::setup
setup(p) ==
    /\ life[p] = "alive"
    /\ nextListenID <= MaxListen
    /\ m_listenID' = [m_listenID EXCEPT ![p] = nextListenID]
    /\ Listen(p)
    /\ last' = [Done("setup", p, NoArgs) EXCEPT !.ret = <<nextListenID>>]
    /\ emitted' = << >>
    /\ observed' = << >>
    /\ UNCHANGED threads
    /\ UNCHANGED <<serialized, inflight, calls, life, cacheVars, registryVars,
                   bindsSent, historyVars, ghostVars>>

\* RpcSequencer::~RpcSequencer: unlisten, then the members are destroyed (the
\* storage of a destroyed proxy is no state any more: its fields are kept at
\* their initial values).  A listener call the channel has already started
\* is not waited for.
Destroy(p) ==
    /\ life[p] = "alive"
    /\ Unlisten(m_listenID[p])
    /\ life' = [life EXCEPT ![p] = "destroyed"]
    /\ m_listenID' = [m_listenID EXCEPT ![p] = 0]
    /\ m_status' = [m_status EXCEPT ![p] = 0]
    /\ m_playbackPosition' = [m_playbackPosition EXCEPT ![p] = 0]
    /\ m_midiTickPlayed' = [m_midiTickPlayed EXCEPT ![p] = [k \in TrackIds |-> 0]]
    /\ chanTicks' = [chanTicks EXCEPT ![p] = [k \in TrackIds |-> {}]]
    /\ last' = Done("destroy", p, NoArgs)
    /\ emitted' = << >>
    /\ observed' = << >>
    /\ UNCHANGED threads
    /\ UNCHANGED <<serialized, nextListenID, inflight, calls, bindsSent, historyVars,
                   ghostVars>>

\* ---------------------------------------------------- read accessors
\* RpcSequencer::status
status(p) == m_status[p]

\* RpcSequencer::playbackPosition
playbackPosition(p) == m_playbackPosition[p]

\* A call of a const accessor on proxy p that returns `value`: no statement
\* but the return.
AccessorCall(p, op, value) ==
    /\ life[p] = "alive"
    /\ last' = [Done(op, p, NoArgs) EXCEPT !.ret = <<value>>]
    /\ emitted' = << >>
    /\ observed' = << >>
    /\ UNCHANGED threads
    /\ UNCHANGED <<transportVars, calls, life, m_listenID, cacheVars, registryVars,
                   bindsSent, historyVars, ghostVars>>

\* status() that returns Stopped whatever the cache holds.
CallStatus_Default(p) == AccessorCall(p, "status", 0)

\* A call of status() by the owning code.
CallStatus(p) == AccessorCall(p, "status", status(p))

\* A call of playbackPosition() by the owning code.
CallPlaybackPosition(p) == AccessorCall(p, "playbackPosition", playbackPosition(p))

\* ------------------------------------------------ outbound operations
\* A call of `op` with parameters `params` on proxy p that hands `msg` to
\* rpcChannel()->send and returns; nothing of the proxy is written.
SendingCall(p, op, params, msg) ==
    /\ life[p] = "alive"
    /\ last' = [Done(op, p, params) EXCEPT !.sent = <<msg>>]
    /\ emitted' = << >>
    /\ observed' = << >>
    /\ UNCHANGED threads
    /\ UNCHANGED <<transportVars, calls, life, m_listenID, cacheVars, registryVars,
                   bindsSent, historyVars, ghostVars>>

\* The NOT_IMPLEMENTED branch: the caller gets the not-implemented signal,
\* nothing is sent.
NotImplementedCall(p, op, params) ==
    /\ life[p] = "alive"
    /\ last' = [Done(op, p, params) EXCEPT !.notImpl = TRUE]
    /\ emitted' = << >>
    /\ observed' = << >>
    /\ UNCHANGED threads
    /\ UNCHANGED <<transportVars, calls, life, m_listenID, cacheVars, registryVars,
                   bindsSent, historyVars, ghostVars>>

initMIDITrack(p, id) ==
    SendingCall(p, "initMIDITrack", <<id>>, Msg(m_target(p), "initMIDITrack", <<id>>))

initAudioTrack(p, id) ==
    SendingCall(p, "initAudioTrack", <<id>>, Msg(m_target(p), "initAudioTrack", <<id>>))

\* setMIDITrack without the isSerialized() guard.
setMIDITrack_Unguarded(p, id, stream) ==
    SendingCall(p, "setMIDITrack", <<id, stream>>,
                Msg(m_target(p), "setMIDITrack", <<id, stream>>))

setMIDITrack(p, id, stream) ==
    IF serialized
    THEN NotImplementedCall(p, "setMIDITrack", <<id, stream>>)
    ELSE SendingCall(p, "setMIDITrack", <<id, stream>>,
                     Msg(m_target(p), "setMIDITrack", <<id, stream>>))

setAudioTrack(p, id, stream) ==
    IF serialized
    THEN NotImplementedCall(p, "setAudioTrack", <<id, stream>>)
    ELSE SendingCall(p, "setAudioTrack", <<id, stream>>,
                     Msg(m_target(p), "setAudioTrack", <<id, stream>>))

\* play() that also sets the cached status to Playing.
play_SetsStatus(p) ==
    /\ life[p] = "alive"
    /\ m_status' = [m_status EXCEPT ![p] = 1]
    /\ last' = [Done("play", p, NoArgs) EXCEPT !.sent = <<Msg(m_target(p), "play", NoArgs)>>]
    /\ emitted' = << >>
    /\ observed' = << >>
    /\ UNCHANGED threads
    /\ UNCHANGED <<transportVars, calls, life, m_listenID, m_playbackPosition,
                   registryVars, bindsSent, historyVars, ghostVars>>

play(p) == SendingCall(p, "play", NoArgs, Msg(m_target(p), "play", NoArgs))

pause(p) == SendingCall(p, "pause", NoArgs, Msg(m_target(p), "pause", NoArgs))

stop(p) == SendingCall(p, "stop", NoArgs, Msg(m_target(p), "stop", NoArgs))

seek(p, position) ==
    SendingCall(p, "seek", <<position>>, Msg(m_target(p), "seek", <<position>>))

rewind(p) == SendingCall(p, "rewind", NoArgs, Msg(m_target(p), "rewind", NoArgs))

\* setLoop with its two arguments in the wrong order.
setLoop_Swapped(p, fromMiliSeconds, toMiliSeconds) ==
    SendingCall(p, "setLoop", <<fromMiliSeconds, toMiliSeconds>>,
                Msg(m_target(p), "setLoop", <<toMiliSeconds, fromMiliSeconds>>))

setLoop(p, fromMiliSeconds, toMiliSeconds) ==
    SendingCall(p, "setLoop", <<fromMiliSeconds, toMiliSeconds>>,
                Msg(m_target(p), "setLoop", <<fromMiliSeconds, toMiliSeconds>>))

unsetLoop(p) == SendingCall(p, "unsetLoop", NoArgs, Msg(m_target(p), "unsetLoop", NoArgs))

\* instantlyPlayMidi that hands back a track handle made from the data when
\* the message was sent.
instantlyPlayMidi_ReturnsHandle(p, data) ==
    IF serialized
    THEN NotImplementedCall(p, "instantlyPlayMidi", <<data>>)
    ELSE /\ life[p] = "alive"
         /\ last' = [Done("instantlyPlayMidi", p, <<data>>) EXCEPT
                        !.sent = <<Msg(m_target(p), "instantlyPlayMidi", <<data>>)>>,
                        !.ret = <<data>>]
         /\ emitted' = << >>
         /\ observed' = << >>
         /\ UNCHANGED threads
         /\ UNCHANGED <<transportVars, calls, life, m_listenID, cacheVars, registryVars,
                        bindsSent, historyVars, ghostVars>>

\* instantlyPlayMidi: returns nullptr (ret = << >>) on both branches.
instantlyPlayMidi(p, data) ==
    IF serialized
    THEN NotImplementedCall(p, "instantlyPlayMidi", <<data>>)
    ELSE SendingCall(p, "instantlyPlayMidi", <<data>>,
                     Msg(m_target(p), "instantlyPlayMidi", <<data>>))

\* ------------------------------------------------ subscription registry
\* std::map::insert({id, Channel()}): a new instance for a key without entry,
\* no effect when the key is present.
RegistryInsert(reg, id) == IF reg[id] = 0 THEN [reg EXCEPT ![id] = 1] ELSE reg

\* One more bindMidiTickPlayed(id) sent by p (counted up to MaxBinds).
CountBind(p, id) ==
    bindsSent' = [bindsSent EXCEPT ![p][id] = IF @ < MaxBinds THEN @ + 1 ELSE @]

\* midiTickPlayed that assigns a new channel to the key when it is present
\* (m_midiTickPlayed[id] = Channel()) instead of inserting only when absent.
midiTickPlayed_Replaces(p, id) ==
    LET found == m_midiTickPlayed[p][id] # 0
        reg == [m_midiTickPlayed[p] EXCEPT ![id] = IF @ < MaxInstances THEN @ + 1 ELSE @]
        msg == Msg(m_target(p), "bindMidiTickPlayed", <<id>>)
    IN  /\ life[p] = "alive"
        /\ IF found THEN UNCHANGED bindsSent ELSE CountBind(p, id)
        /\ m_midiTickPlayed' = [m_midiTickPlayed EXCEPT ![p] = reg]
        /\ last' = [Done("midiTickPlayed", p, <<id>>) EXCEPT
                       !.sent = IF found THEN << >> ELSE <<msg>>,
                       !.ret = Chan(p, id, reg[id])]
        /\ emitted' = << >>
        /\ observed' = << >>
        /\ subscribed' = [subscribed EXCEPT ![p] = @ \cup {id}]
        /\ UNCHANGED threads
        /\ UNCHANGED <<transportVars, calls, life, m_listenID, cacheVars, chanTicks,
                       ghostVars>>

\* RpcSequencer::midiTickPlayed: find; if absent send bindMidiTickPlayed and
\* insert a new channel; return m_midiTickPlayed[id].
midiTickPlayed(p, id) ==
    LET found == m_midiTickPlayed[p][id] # 0
        reg == IF found THEN m_midiTickPlayed[p] ELSE RegistryInsert(m_midiTickPlayed[p], id)
        msg == Msg(m_target(p), "bindMidiTickPlayed", <<id>>)
    IN  /\ life[p] = "alive"
        /\ IF found THEN UNCHANGED bindsSent ELSE CountBind(p, id)
        /\ m_midiTickPlayed' = [m_midiTickPlayed EXCEPT ![p] = reg]
        /\ last' = [Done("midiTickPlayed", p, <<id>>) EXCEPT
                       !.sent = IF found THEN << >> ELSE <<msg>>,
                       !.ret = Chan(p, id, reg[id])]
        /\ emitted' = << >>
        /\ observed' = << >>
        /\ subscribed' = [subscribed EXCEPT ![p] = @ \cup {id}]
        /\ UNCHANGED threads
        /\ UNCHANGED <<transportVars, calls, life, m_listenID, cacheVars, chanTicks,
                       ghostVars>>

\* ------------------------------- midiTickPlayed, statement by statement
\* The same function run by threads that are not synchronised: nothing in it
\* takes a lock, so the statements of two calls, and of the listener on the
\* channel's thread, interleave.

\* Thread u is inside midiTickPlayed on proxy p.
Inside(u, p) == threads[u].pc \in {"send", "insert", "return"} /\ threads[u].p = p

\* `auto found = m_midiTickPlayed.find(id); if (found == end())`
mtpFind(t, p, id) ==
    LET found == m_midiTickPlayed[p][id] # 0
        overlap == \E u \in Threads \ {t} : Inside(u, p)
    IN  /\ life[p] = "alive"
        /\ threads[t].pc \in {"idle", "done"}
        /\ threads' = [u \in Threads |->
                          IF u = t
                          THEN [pc |-> IF found THEN "return" ELSE "send", p |-> p,
                                id |-> id, found |-> found, raced |-> overlap,
                                ret |-> << >>]
                          ELSE IF Inside(u, p)
                               THEN [threads[u] EXCEPT !.raced = TRUE]
                               ELSE threads[u]]
        /\ UNCHANGED <<transportVars, calls, life, m_listenID, cacheVars, registryVars,
                       bindsSent, last, emitted, observed, historyVars, ghostVars>>

\* `rpcChannel()->send(Msg(m_target, "bindMidiTickPlayed", ...))`
mtpSend(t) ==
    /\ threads[t].pc = "send"
    /\ life[threads[t].p] = "alive"
    /\ CountBind(threads[t].p, threads[t].id)
    /\ threads' = [threads EXCEPT ![t].pc = "insert"]
    /\ UNCHANGED <<transportVars, calls, life, m_listenID, cacheVars, registryVars,
                   last, emitted, observed, historyVars, ghostVars>>

\* What an unsynchronised insert can leave in the map when another thread
\* accessed it during the call (a data race on std::map): the entry the
\* insert specifies, or a second node for the key that hides the first.
RacyInsert(reg, id) ==
    {RegistryInsert(reg, id), [reg EXCEPT ![id] = IF @ < MaxInstances THEN @ + 1 ELSE @]}

\* `m_midiTickPlayed.insert({ id, Channel() })`
mtpInsert(t) ==
    LET p == threads[t].p
        id == threads[t].id
        outcomes == IF threads[t].raced
                    THEN RacyInsert(m_midiTickPlayed[p], id)
                    ELSE {RegistryInsert(m_midiTickPlayed[p], id)}
    IN  /\ threads[t].pc = "insert"
        /\ life[p] = "alive"
        /\ \E reg \in outcomes :
              /\ m_midiTickPlayed' = [m_midiTickPlayed EXCEPT ![p] = reg]
              /\ chanTicks' = IF reg[id] = m_midiTickPlayed[p][id]
                              THEN chanTicks
                              ELSE [chanTicks EXCEPT ![p][id] = {}]
        /\ threads' = [threads EXCEPT ![t].pc = "return"]
        /\ UNCHANGED <<transportVars, calls, life, m_listenID, cacheVars, bindsSent,
                       last, emitted, observed, historyVars, ghostVars>>

\* `return m_midiTickPlayed[id];`
mtpReturn(t) ==
    LET p == threads[t].p
        id == threads[t].id
        reg == RegistryInsert(m_midiTickPlayed[p], id)
        msg == Msg(m_target(p), "bindMidiTickPlayed", <<id>>)
    IN  /\ threads[t].pc = "return"
        /\ life[p] = "alive"
        /\ m_midiTickPlayed' = [m_midiTickPlayed EXCEPT ![p] = reg]
        /\ threads' = [threads EXCEPT ![t].pc = "done", ![t].ret = Chan(p, id, reg[id])]
        /\ last' = [Done("midiTickPlayed", p, <<id>>) EXCEPT
                       !.sent = IF threads[t].found THEN << >> ELSE <<msg>>,
                       !.ret = Chan(p, id, reg[id])]
        /\ emitted' = << >>
        /\ observed' = << >>
        /\ subscribed' = [subscribed EXCEPT ![p] = @ \cup {id}]
        /\ UNCHANGED <<transportVars, calls, life, m_listenID, cacheVars, chanTicks,
                       bindsSent, ghostVars>>

\* ------------------------------------------------ inbound: the handlers
\* Each handler is a closure of the static table; q is the `this` it
\* captured.

\* calls["statusChanged"]: m_status = arg 0; m_statusChanged.send(m_status).
HandlerStatusChanged(q, args) ==
    /\ m_status' = [m_status EXCEPT ![q] = args[1]]
    /\ emitted' = <<"status", q, m_status'[q]>>
    /\ observed' = <<m_status'[q]>>
    /\ UNCHANGED <<m_playbackPosition, registryVars>>

\* A positionChanged handler that notifies first and stores the position
\* afterwards.
HandlerPositionChanged_NotifyFirst(q, args) ==
    /\ emitted' = <<"position", q>>
    /\ observed' = <<m_playbackPosition[q]>>
    /\ m_playbackPosition' = [m_playbackPosition EXCEPT ![q] = args[1]]
    /\ UNCHANGED <<m_status, registryVars>>

\* calls["positionChanged"]: m_playbackPosition = arg 0; m_positionChanged.notify().
HandlerPositionChanged(q, args) ==
    /\ m_playbackPosition' = [m_playbackPosition EXCEPT ![q] = args[1]]
    /\ emitted' = <<"position", q>>
    /\ observed' = <<m_playbackPosition'[q]>>
    /\ UNCHANGED <<m_status, registryVars>>

\* A midiTickPlayed handler that sends the tick on every channel of the
\* registry.
HandlerMidiTickPlayed_AllTracks(q, args) ==
    LET trackID == args[1]
        tick == args[2]
        n == IF m_midiTickPlayed[q][trackID] = 0 THEN 1 ELSE m_midiTickPlayed[q][trackID]
    IN  /\ m_midiTickPlayed' = [m_midiTickPlayed EXCEPT ![q][trackID] = n]
        /\ chanTicks' = [chanTicks EXCEPT ![q] =
                            [k \in TrackIds |->
                               IF m_midiTickPlayed'[q][k] # 0
                               THEN chanTicks[q][k] \cup {tick} ELSE chanTicks[q][k]]]
        /\ emitted' = <<"tick", q, trackID, n, tick>>
        /\ observed' = << >>
        /\ UNCHANGED cacheVars

\* calls["midiTickPlayed"]: m_midiTickPlayed[trackID] default-constructs the
\* channel of a track id without entry, then the tick is sent on it.
HandlerMidiTickPlayed(q, args) ==
    LET trackID == args[1]
        tick == args[2]
        n == IF m_midiTickPlayed[q][trackID] = 0 THEN 1 ELSE m_midiTickPlayed[q][trackID]
    IN  /\ m_midiTickPlayed' = [m_midiTickPlayed EXCEPT ![q][trackID] = n]
        /\ chanTicks' = [chanTicks EXCEPT ![q][trackID] = @ \cup {tick}]
        /\ emitted' = <<"tick", q, trackID, n, tick>>
        /\ observed' = << >>
        /\ UNCHANGED cacheVars

Handler(method, q, args) ==
    CASE method = "statusChanged" -> HandlerStatusChanged(q, args)
      [] method = "positionChanged" -> HandlerPositionChanged(q, args)
      [] method = "midiTickPlayed" -> HandlerMidiTickPlayed(q, args)

\* it->second(msg.args).  The closure writes through the `this` it captured;
\* when that proxy has been destroyed this is undefined behaviour: the write
\* goes to storage that is no proxy's, and the send on the destroyed channel
\* object reaches its former subscribers or nobody.
RunCall(method, q, args) ==
    IF life[q] = "destroyed"
    THEN /\ handlerOnDead' = handlerOnDead \cup {q}
         /\ emitted' \in {<< >>, <<"destroyed", q>>}
         /\ observed' = << >>
         /\ UNCHANGED <<cacheVars, registryVars>>
    ELSE /\ Handler(method, q, args)
         /\ UNCHANGED handlerOnDead

\* ------------------------------------------------ inbound: the listener
\* `if (msg.target != m_target) return;` read through the listener's `this`:
\* the possible outcomes of "the message passes".  A destroyed `this` makes
\* the read of m_target undefined: either outcome.
\* The listener without its target filter.
TargetMatches_NoFilter(this, msg) == {TRUE}

TargetMatches(this, msg) ==
    IF life[this] = "destroyed" THEN BOOLEAN ELSE {msg.target = m_target(this)}

\* bindMethod: calls.insert({method, call}), no effect on a key present.
bindMethod(table, method, this) ==
    IF \E c \in table : c[1] = method THEN table ELSE table \cup {<<method, this>>}

\* A table rebuilt by every listener call, its closures capturing the caller.
BoundCalls_PerCall(table, this) ==
    {<<"statusChanged", this>>, <<"positionChanged", this>>, <<"midiTickPlayed", this>>}

\* `if (calls.empty()) { ... }`: the three handlers, their closures capturing
\* the `this` of the listener call that finds the table empty.
BoundCalls(table, this) ==
    IF table = {}
    THEN bindMethod(bindMethod(bindMethod(table, "statusChanged", this),
                               "positionChanged", this),
                    "midiTickPlayed", this)
    ELSE table

\* calls.find(msg.method)
Find(table, method) == {c \in table : c[1] = method}

\* A lookup failure that resets every cached status on its way out.
NotFound_ClearsStatus(done) ==
    /\ last' = [done EXCEPT !.pass = TRUE, !.logged = TRUE]
    /\ emitted' = << >>
    /\ observed' = << >>
    /\ m_status' = [p \in Proxies |-> 0]
    /\ UNCHANGED <<m_playbackPosition, registryVars, handlerOnDead>>

\* `if (it == calls.end()) { LOGE() ...; return; }`: the message is logged
\* and dropped.
NotFound(done) ==
    /\ last' = [done EXCEPT !.pass = TRUE, !.logged = TRUE]
    /\ emitted' = << >>
    /\ observed' = << >>
    /\ UNCHANGED <<cacheVars, registryVars, handlerOnDead>>

\* The body of the lambda registered in setup(), called with msg; `this` is
\* the proxy the lambda captured.
ListenerBody(this, msg) ==
    LET done == [Done("listener", this, msg.args) EXCEPT
                    !.target = msg.target, !.method = msg.method]
    IN  /\ lambdaOnDead' = IF life[this] = "destroyed"
                           THEN lambdaOnDead \cup {this} ELSE lambdaOnDead
        /\ \E pass \in TargetMatches(this, msg) :
             IF ~pass
             THEN /\ last' = done
                  /\ emitted' = << >>
                  /\ observed' = << >>
                  /\ UNCHANGED <<calls, cacheVars, registryVars, handlerOnDead>>
             ELSE LET table == BoundCalls(calls, this)
                      it == Find(table, msg.method)
                  IN  /\ calls' = table
                      /\ IF it = {}
                         THEN NotFound(done)
                         ELSE \E c \in it :
                                /\ RunCall(c[1], c[2], msg.args)
                                /\ last' = [done EXCEPT !.pass = TRUE, !.ran = c[1],
                                                        !.on = c[2]]
        /\ UNCHANGED <<serialized, listeners, nextListenID, life, m_listenID, bindsSent,
                       subscribed>>

\* The channel delivers msg to the listener registered under lid, on the
\* thread that owns the proxies: the call runs to its end.
Dispatch(lid, msg) ==
    /\ listeners[lid] # 0
    /\ inflight = << >>
    /\ ListenerBody(listeners[lid], msg)
    /\ UNCHANGED <<inflight, threads>>

\* The channel delivers on a thread of its own: it takes the listener
\* registered under lid and starts the call ...
TransportInvoke(lid, msg) ==
    /\ listeners[lid] # 0
    /\ inflight = << >>
    /\ inflight' = <<lid, listeners[lid], msg>>
    /\ UNCHANGED <<serialized, listeners, nextListenID, calls, life, m_listenID,
                   cacheVars, registryVars, bindsSent, last, emitted, observed, threads,
                   historyVars, ghostVars>>

\* ... and the lambda's body runs, whatever the owning thread did meanwhile.
ListenerRun ==
    /\ inflight # << >>
    /\ ListenerBody(inflight[2], inflight[3])
    /\ inflight' = << >>
    /\ threads' = [t \in Threads |->
                      IF last'.ran = "midiTickPlayed" /\ Inside(t, last'.on)
                      THEN [threads[t] EXCEPT !.raced = TRUE] ELSE threads[t]]

\* ------------------------------------------------------ specifications
Lifecycle ==
    \/ \E p \in Proxies : setup(p)
    \/ \E p \in Proxies : Destroy(p)

Commands ==
    \/ \E p \in Proxies, id \in TrackIds : initMIDITrack(p, id)
    \/ \E p \in Proxies, id \in TrackIds : initAudioTrack(p, id)
    \/ \E p \in Proxies, id \in TrackIds, st \in Streams : setMIDITrack(p, id, st)
    \/ \E p \in Proxies, id \in TrackIds, st \in Streams : setAudioTrack(p, id, st)
    \/ \E p \in Proxies : play(p)
    \/ \E p \in Proxies : pause(p)
    \/ \E p \in Proxies : stop(p)
    \/ \E p \in Proxies, pos \in Millis : seek(p, pos)
    \/ \E p \in Proxies : rewind(p)
    \/ \E p \in Proxies, f \in Millis, t \in Millis : setLoop(p, f, t)
    \/ \E p \in Proxies : unsetLoop(p)
    \/ \E p \in Proxies, d \in MidiDatas : instantlyPlayMidi(p, d)

Subscribe == \E p \in Proxies, id \in TrackIds : midiTickPlayed(p, id)

Accessors ==
    \/ \E p \in Proxies : CallStatus(p)
    \/ \E p \in Proxies : CallPlaybackPosition(p)

Deliveries == \E lid \in ListenIDs, msg \in InboundMsgs : Dispatch(lid, msg)

\* The proxies, their subscriptions and the deliveries of the channel, all on
\* the thread that owns the proxies.
Next ==
    \/ Lifecycle
    \/ Subscribe
    \/ Deliveries

Spec == Init /\ [][Next]_vars

\* The outbound commands, on proxies set up and destroyed.
NextCommands ==
    \/ Lifecycle
    \/ Commands

SpecCommands == Init /\ [][NextCommands]_vars

\* One message of each kind addressed to the proxies, both status values.
EventMsgs ==
    {Msg("Sequencer", "statusChanged", <<s>>) : s \in StatusValues}
    \cup {Msg("Sequencer", "positionChanged", <<5>>),
          Msg("Sequencer", "midiTickPlayed", <<1, 7>>),
          Msg("Sequencer", "play", NoArgs)}

\* Every operation and every handler, on one thread.
NextAll ==
    \/ Lifecycle
    \/ Commands
    \/ Subscribe
    \/ Accessors
    \/ \E lid \in ListenIDs, msg \in EventMsgs : Dispatch(lid, msg)

SpecAll == Init /\ [][NextAll]_vars

\* The messages delivered while the owning thread runs: one of each event.
ThreadMsgs ==
    {Msg("Sequencer", "statusChanged", <<1>>), Msg("Sequencer", "positionChanged", <<5>>),
     Msg("Sequencer", "midiTickPlayed", <<1, 7>>)}

\* The channel delivers on its own thread while the owning thread sets up,
\* subscribes and destroys.
NextThreads ==
    \/ Lifecycle
    \/ Subscribe
    \/ \E lid \in ListenIDs, msg \in ThreadMsgs : TransportInvoke(lid, msg)
    \/ ListenerRun

SpecThreads == Init /\ [][NextThreads]_vars

\* The track the threads subscribe to, and its tick event, delivered while
\* they are inside midiTickPlayed.
RaceTracks == {1}
RaceMsgs == {Msg("Sequencer", "midiTickPlayed", <<k, 7>>) : k \in RaceTracks}

\* Threads of the owning code call midiTickPlayed on proxies that were set
\* up, while the channel delivers tick events on its own thread.
NextRace ==
    \/ \E p \in Proxies : setup(p)
    \/ \E t \in Threads, p \in Proxies, id \in RaceTracks : mtpFind(t, p, id)
    \/ \E t \in Threads : mtpSend(t)
    \/ \E t \in Threads : mtpInsert(t)
    \/ \E t \in Threads : mtpReturn(t)
    \/ \E lid \in ListenIDs, msg \in RaceMsgs : TransportInvoke(lid, msg)
    \/ ListenerRun

SpecRace == Init /\ [][NextRace]_vars

\* ================================================================ claims

\* C1: a delivery to the listener of a live proxy of a message whose target
\* is not the proxy's target runs no handler: the static table, the cached
\* status and position and every registry are unchanged, nothing is emitted
\* and nothing is sent, whatever the method and the arguments.
C1_ForeignTargetIgnored ==
    [][(/\ last'.op = "listener"
        /\ life[last'.p] = "alive"
        /\ last'.target # m_target(last'.p))
       => (/\ UNCHANGED <<calls, cacheVars, registryVars, bindsSent>>
           /\ emitted' = << >>
           /\ last'.sent = << >>
           /\ last'.ran = "none")]_vars

\* C1 witness: a statusChanged addressed to another target was delivered to
\* a live proxy's listener while the handler table existed, and was dropped.
C1_Witness ==
    /\ last.op = "listener"
    /\ last.target = "Other"
    /\ last.method = "statusChanged"
    /\ life[last.p] = "alive"
    /\ ~last.pass
    /\ calls # {}

\* C2: after any number of midiTickPlayed(K) calls on a proxy, every call
\* has returned the one channel instance of K and exactly one
\* bindMidiTickPlayed(K) has been sent by the proxy in total.
C2_OneBindForRepeatedCalls ==
    last.op = "midiTickPlayed"
    => (/\ last.ret = Chan(last.p, last.args[1], 1)
        /\ bindsSent[last.p][last.args[1]] = 1)

\* C3: every track id that has a channel in a proxy's registry has had
\* exactly one bindMidiTickPlayed sent for it by that proxy, whichever path
\* made the channel.
C3_EveryChannelBoundOnce ==
    \A p \in Proxies, k \in TrackIds :
        m_midiTickPlayed[p][k] # 0 => bindsSent[p][k] = 1

\* C4: when a midiTickPlayed(K, t) event has been dispatched by a proxy's
\* listener before any midiTickPlayed(K) call on that proxy, the call that
\* follows finds one channel for K in the proxy's registry, makes no second
\* one, returns that channel, and t has been sent on it.
C4_EarlyEventSharedChannel ==
    [][\A p \in Proxies, k \in TrackIds :
          (/\ last.op = "listener"
           /\ last.p = p
           /\ last.pass
           /\ last.ran = "midiTickPlayed"
           /\ last.args[1] = k
           /\ k \notin subscribed[p]
           /\ midiTickPlayed(p, k))
          => (/\ m_midiTickPlayed[p][k] # 0
              /\ m_midiTickPlayed'[p][k] = m_midiTickPlayed[p][k]
              /\ last'.ret = Chan(p, k, m_midiTickPlayed[p][k])
              /\ last.args[2] \in chanTicks'[p][k])]_vars

\* C5: after the listener of a live proxy has dispatched statusChanged(S)
\* addressed to the proxy's target, status() of that proxy is S and S was
\* sent on its status channel; after positionChanged(P), playbackPosition()
\* is P and its position notification was emitted.
C5_EventVisibleAfterDispatch ==
    (last.op = "listener" /\ life[last.p] = "alive" /\ last.pass)
    => (/\ last.method = "statusChanged"
           => (/\ status(last.p) = last.args[1]
               /\ emitted = <<"status", last.p, last.args[1]>>)
        /\ last.method = "positionChanged"
           => (/\ playbackPosition(last.p) = last.args[1]
               /\ emitted = <<"position", last.p>>))

\* C6: setMIDITrack, setAudioTrack and instantlyPlayMidi: on a serialized
\* channel the call ends with the not-implemented signal and sends nothing;
\* on a direct channel it sends exactly one message, to the proxy's target,
\* named after the operation and carrying the call's arguments.
C6_SerializedGuard ==
    last.op \in {"setMIDITrack", "setAudioTrack", "instantlyPlayMidi"}
    => IF serialized
       THEN last.notImpl /\ last.sent = << >>
       ELSE ~last.notImpl /\ last.sent = <<Msg(m_target(last.p), last.op, last.args)>>

\* C6 witness: setMIDITrack was called on a serialized channel.
C6_Witness ==
    /\ serialized
    /\ last.op = "setMIDITrack"
    /\ last.args = <<2, 3>>
    /\ last.notImpl

\* C7: no listener body and no handler ever runs on a proxy whose destructor
\* has completed, also when the channel delivers on its own thread.
C7_NoDispatchAfterTeardown == lambdaOnDead = {} /\ handlerOnDead = {}

\* C8: a handler run by the listener of a live proxy acts on a live proxy,
\* and once some proxy has been destroyed it acts on the proxy whose
\* listener runs it.
C8_HandlersTouchLiveProxiesOnly ==
    (last.op = "listener" /\ life[last.p] = "alive" /\ last.ran # "none")
    => (/\ life[last.on] = "alive"
        /\ (\E a \in Proxies : life[a] = "destroyed") => last.on = last.p)

\* What C9 asks of a fire-and-forget call: one message, to p's target, with
\* the given method and arguments; nothing returned; no state of any proxy,
\* of the table or of the channel's listeners written.
C9_OneMessage(p, method, args) ==
    /\ last'.sent = <<Msg(m_target(p), method, args)>>
    /\ last'.ret = << >>
    /\ ~last'.notImpl
    /\ emitted' = << >>
    /\ observed' = << >>
    /\ UNCHANGED threads
    /\ UNCHANGED <<transportVars, calls, life, m_listenID, cacheVars, registryVars,
                   bindsSent>>

\* C9: each call of initMIDITrack, initAudioTrack, play, pause, stop, seek,
\* rewind, setLoop, unsetLoop hands exactly one message to the channel, to
\* the proxy's target, named after the operation, its arguments the call's
\* parameters in order, and writes no proxy state.
C9_FireAndForget ==
    [][\A p \in Proxies :
          /\ \A id \in TrackIds :
                /\ initMIDITrack(p, id) => C9_OneMessage(p, "initMIDITrack", <<id>>)
                /\ initAudioTrack(p, id) => C9_OneMessage(p, "initAudioTrack", <<id>>)
          /\ play(p) => C9_OneMessage(p, "play", NoArgs)
          /\ pause(p) => C9_OneMessage(p, "pause", NoArgs)
          /\ stop(p) => C9_OneMessage(p, "stop", NoArgs)
          /\ \A pos \in Millis : seek(p, pos) => C9_OneMessage(p, "seek", <<pos>>)
          /\ rewind(p) => C9_OneMessage(p, "rewind", NoArgs)
          /\ \A f \in Millis, t \in Millis :
                setLoop(p, f, t) => C9_OneMessage(p, "setLoop", <<f, t>>)
          /\ unsetLoop(p) => C9_OneMessage(p, "unsetLoop", NoArgs)]_vars

\* C9 witness: setLoop(1, 2) has been called and its message sent.
C9_Witness ==
    /\ last.op = "setLoop"
    /\ last.args = <<1, 2>>
    /\ last.sent = <<Msg("Sequencer", "setLoop", <<1, 2>>)>>

\* C10: the value status() returns for a live proxy changes only in a step
\* of the statusChanged handler, the value playbackPosition() returns only
\* in a step of the positionChanged handler: no outbound operation and no
\* other step changes them.
C10_CacheWrittenByEventsOnly ==
    [][\A p \in Proxies :
          life'[p] = "alive"
          => (/\ status(p)' # status(p)
                 => (last'.op = "listener" /\ last'.ran = "statusChanged")
              /\ playbackPosition(p)' # playbackPosition(p)
                 => (last'.op = "listener" /\ last'.ran = "positionChanged"))]_vars

\* C10 witness: play() has returned on a proxy whose cached status and
\* position are the ones earlier events stored.
C10_Witness ==
    /\ last.op = "play"
    /\ status(last.p) = 1
    /\ playbackPosition(last.p) = 5

\* C11: a call of status() or playbackPosition() on a live proxy sends no
\* message, emits nothing and leaves the cached status, the cached position,
\* every registry, the table and the channel's listeners unchanged; it
\* returns the cached value, and that value is the one the statusChanged
\* (positionChanged) handler stored last: the handler's step stores the
\* event's value, and no other step changes the cache of a live proxy.
C11_AccessorsReadCacheOnly ==
    [][/\ last'.op \in {"status", "playbackPosition"}
          => (/\ last'.sent = << >>
              /\ ~last'.notImpl
              /\ emitted' = << >>
              /\ UNCHANGED <<transportVars, calls, life, m_listenID, cacheVars,
                             registryVars, bindsSent>>
              /\ last'.op = "status" => last'.ret = <<m_status[last'.p]>>
              /\ last'.op = "playbackPosition"
                 => last'.ret = <<m_playbackPosition[last'.p]>>)
       /\ \A p \in Proxies :
             life'[p] = "alive"
             => (/\ m_status'[p] # m_status[p]
                    => (/\ last'.ran = "statusChanged"
                        /\ last'.on = p
                        /\ m_status'[p] = last'.args[1])
                 /\ m_playbackPosition'[p] # m_playbackPosition[p]
                    => (/\ last'.ran = "positionChanged"
                        /\ last'.on = p
                        /\ m_playbackPosition'[p] = last'.args[1]))]_vars

\* C11 witness: status() has returned Playing, the value a statusChanged
\* event stored, on a proxy whose cached position an event stored too.
C11_Witness ==
    /\ last.op = "status"
    /\ last.ret = <<1>>
    /\ m_playbackPosition[last.p] = 5
    /\ calls # {}

\* The method names the table has a handler for.
C12_KnownMethods == {"statusChanged", "positionChanged", "midiTickPlayed"}

\* C12: a delivery to the listener of a live proxy of a message addressed to
\* the proxy's target whose method is none of statusChanged,
\* positionChanged, midiTickPlayed is logged and dropped: no handler runs,
\* the cached status and position and every registry are unchanged, nothing
\* is emitted or sent, and the proxy and its listener registration are as
\* before, so later messages are dispatched as usual.
C12_UnknownMethodDropped ==
    [][(/\ last'.op = "listener"
        /\ life[last'.p] = "alive"
        /\ last'.target = m_target(last'.p)
        /\ last'.method \notin C12_KnownMethods)
       => (/\ last'.pass
           /\ last'.logged
           /\ last'.ran = "none"
           /\ last'.sent = << >>
           /\ emitted' = << >>
           /\ UNCHANGED <<cacheVars, registryVars, bindsSent>>
           /\ UNCHANGED <<listeners, life, m_listenID, inflight, ghostVars>>)]_vars

\* C12 witness: a "play" message addressed to the Sequencer target was
\* dropped by the listener of a live proxy whose cache events had filled and
\* whose registry has a channel.
C12_Witness ==
    /\ last.op = "listener"
    /\ last.method = "play"
    /\ last.pass
    /\ last.logged
    /\ life[last.p] = "alive"
    /\ m_status[last.p] = 1
    /\ m_playbackPosition[last.p] = 5
    /\ \E k \in TrackIds : m_midiTickPlayed[last.p][k] # 0

\* C13: whenever calls of midiTickPlayed(K) that found K absent have
\* returned, whatever the interleaving with each other and with the
\* listener, the registry has one channel for K, each caller holds that
\* channel, any two callers for K hold the same one, and exactly one
\* bindMidiTickPlayed(K) has been sent.
C13_ConcurrentSubscribeAtomic ==
    /\ \A t \in Threads :
          (threads[t].pc = "done" /\ ~threads[t].found)
          => (/\ m_midiTickPlayed[threads[t].p][threads[t].id] # 0
              /\ threads[t].ret = Chan(threads[t].p, threads[t].id,
                                        m_midiTickPlayed[threads[t].p][threads[t].id])
              /\ bindsSent[threads[t].p][threads[t].id] = 1)
    /\ \A t \in Threads, u \in Threads :
          (/\ threads[t].pc = "done"
           /\ threads[u].pc = "done"
           /\ threads[t].p = threads[u].p
           /\ threads[t].id = threads[u].id)
          => threads[t].ret = threads[u].ret

\* C14: the static table is empty until the first listener call that passes
\* the target filter; that call fills it with exactly the entries
\* statusChanged, positionChanged, midiTickPlayed, bound to the proxy of that
\* call; from then on no step of any proxy changes the table.
C14_TableBuiltOnce ==
    [][/\ calls # {} => calls' = calls
       /\ calls = {}
          => IF last'.op = "listener" /\ last'.pass
             THEN calls' = {<<"statusChanged", last'.p>>, <<"positionChanged", last'.p>>,
                            <<"midiTickPlayed", last'.p>>}
             ELSE calls' = {}]_vars

\* C14 witness: the listener of a proxy other than the one that built the
\* table has dispatched positionChanged through the table.
C14_Witness ==
    /\ calls # {}
    /\ last.op = "listener"
    /\ last.ran = "positionChanged"
    /\ last.on # last.p
    /\ life[last.p] = "alive"
    /\ \A c \in calls : c[2] = last.on

\* C15: every call of instantlyPlayMidi returns the null track handle, on a
\* serialized channel (nothing sent) and on a direct one (message sent).
C15_InstantPlayReturnsNull ==
    last.op = "instantlyPlayMidi"
    => (/\ last.ret = << >>
        /\ serialized => (last.notImpl /\ last.sent = << >>)
        /\ ~serialized => (~last.notImpl /\ Len(last.sent) = 1))

\* C15 witness: instantlyPlayMidi has sent its message on a direct channel
\* and returned.
C15_Witness ==
    /\ last.op = "instantlyPlayMidi"
    /\ ~serialized
    /\ last.args = <<4>>
    /\ last.sent = <<Msg("Sequencer", "instantlyPlayMidi", <<4>>)>>

\* C16: the handler that the listener of a live proxy runs for an event
\* addressed to the proxies' target acts on that proxy: delivered to the
\* listeners of two proxies, one event updates each proxy's own cached
\* status, cached position or channel, not those of the proxy whose listener
\* built the table.
C16_HandlerActsOnOwnInstance ==
    (last.op = "listener" /\ life[last.p] = "alive" /\ last.pass /\ last.ran # "none")
    => (/\ last.on = last.p
        /\ last.ran = "statusChanged" => m_status[last.p] = last.args[1]
        /\ last.ran = "positionChanged" => m_playbackPosition[last.p] = last.args[1]
        /\ last.ran = "midiTickPlayed" => last.args[2] \in chanTicks[last.p][last.args[1]])

\* C17: a message that passes the target filter and is dispatched to a
\* handler on a live proxy runs the one handler registered under its method
\* name, and the handler writes its own part only: statusChanged the cached
\* status of the proxy it acts on, positionChanged its cached position,
\* midiTickPlayed(K, t) the channel of K of its registry, to which t is
\* sent; every other status, position, registry entry and channel is
\* unchanged, and no handler sends an outbound message.
C17_HandlerFrame ==
    [][(/\ last'.op = "listener"
        /\ last'.pass
        /\ last'.ran # "none"
        /\ life[last'.on] = "alive")
       => (/\ last'.ran = last'.method
           /\ last'.sent = << >>
           /\ UNCHANGED <<bindsSent, transportVars, life, m_listenID>>
           /\ last'.ran = "statusChanged"
              => (/\ UNCHANGED <<m_playbackPosition, registryVars>>
                  /\ \A p \in Proxies \ {last'.on} : m_status'[p] = m_status[p]
                  /\ emitted'[1] = "status")
           /\ last'.ran = "positionChanged"
              => (/\ UNCHANGED <<m_status, registryVars>>
                  /\ \A p \in Proxies \ {last'.on} :
                        m_playbackPosition'[p] = m_playbackPosition[p]
                  /\ emitted'[1] = "position")
           /\ last'.ran = "midiTickPlayed"
              => (/\ UNCHANGED cacheVars
                  /\ last'.args[2] \in chanTicks'[last'.on][last'.args[1]]
                  /\ emitted' = <<"tick", last'.on, last'.args[1],
                                  m_midiTickPlayed'[last'.on][last'.args[1]], last'.args[2]>>
                  /\ \A p \in Proxies, k \in TrackIds :
                        <<p, k>> # <<last'.on, last'.args[1]>>
                        => (/\ chanTicks'[p][k] = chanTicks[p][k]
                            /\ m_midiTickPlayed'[p][k] = m_midiTickPlayed[p][k])))]_vars

\* C17 witness: midiTickPlayed(1, 7) was dispatched on a proxy whose
\* registry has a channel for track 2 as well, and only the channel of
\* track 1 has the tick.
C17_Witness ==
    /\ last.op = "listener"
    /\ last.ran = "midiTickPlayed"
    /\ last.args = <<1, 7>>
    /\ life[last.on] = "alive"
    /\ m_midiTickPlayed[last.on][2] # 0
    /\ chanTicks[last.on][1] = {7}
    /\ chanTicks[last.on][2] = {}
    /\ m_status[last.on] = 1

\* C18: when the statusChanged handler sends on the status channel, or the
\* positionChanged handler emits the position notification, of a live
\* proxy, a subscriber that calls status() (playbackPosition()) from its
\* callback reads the value the event carried, and the value sent on the
\* status channel is that value.
C18_CacheWrittenBeforeNotify ==
    (Len(emitted) > 0 /\ emitted[1] \in {"status", "position"})
    => (/\ last.op = "listener"
        /\ observed = <<last.args[1]>>
        /\ emitted[1] = "status"
           => (/\ emitted[3] = last.args[1]
               /\ status(emitted[2]) = last.args[1])
        /\ emitted[1] = "position" => playbackPosition(emitted[2]) = last.args[1])

\* C18 witness: the position notification of a proxy was emitted for
\* positionChanged(5) and its subscriber read 5.
C18_Witness ==
    /\ emitted = <<"position", last.on>>
    /\ last.ran = "positionChanged"
    /\ last.args = <<5>>
    /\ observed = <<5>>
    /\ m_status[last.on] = 1

\* C19: as long as a proxy lives, a track id that has a channel in its
\* registry keeps it and stays mapped to the same channel instance, with
\* the ticks already sent on it, whatever is called or delivered: a
\* midiTickPlayed call, an inbound event, an outbound command, an accessor.
C19_RegistryOnlyGrows ==
    [][\A p \in Proxies, k \in TrackIds :
          (life'[p] = "alive" /\ m_midiTickPlayed[p][k] # 0)
          => (/\ m_midiTickPlayed'[p][k] = m_midiTickPlayed[p][k]
              /\ chanTicks[p][k] \subseteq chanTicks'[p][k]
              /\ last'.op = "midiTickPlayed" /\ last'.p = p /\ last'.args = <<k>>
                 => last'.ret = Chan(p, k, m_midiTickPlayed[p][k]))]_vars

\* C19 witness: midiTickPlayed(1) was called on a proxy whose channel of
\* track 1 the inbound handler had created; the call sent no bind and
\* returned that channel, which still has the tick.
C19_Witness ==
    /\ last.op = "midiTickPlayed"
    /\ last.args = <<1>>
    /\ last.sent = << >>
    /\ bindsSent[last.p][1] = 0
    /\ last.ret = Chan(last.p, 1, 1)
    /\ chanTicks[last.p][1] = {7}

\* C20: at any time the channel has at most one listener of a proxy, and
\* none of a proxy whose destructor has run, however many times setup() was
\* called on it; and the listen id a live proxy holds is one under which the
\* channel has a listener of that proxy (what the destructor will revoke).
C20_OneListenerRevokedAtTeardown ==
    \A p \in Proxies :
        /\ Cardinality({l \in ListenIDs : listeners[l] = p}) <= 1
        /\ life[p] = "destroyed" => \A l \in ListenIDs : listeners[l] # p
        /\ (life[p] = "alive" /\ m_listenID[p] # 0) => listeners[m_listenID[p]] = p

====
